---- MODULE Spec2Model ----
(***************************************************************************)
(* Model of the CtrlPass retrieval/question-answering utilities:           *)
(*   utils/smart_splitter.py     SmartTextSplitter                         *)
(*   utils/qa_chain.py           QAChain                                   *)
(*   utils/knowledge_base.py     KnowledgeBase                             *)
(*   utils/exercise_generator.py ExerciseGenerator                         *)
(*                                                                         *)
(* Texts are sequences of tokens, each standing for a run of characters    *)
(* with a known length.  Floating point products (x * 1.5, x * 1.2,        *)
(* x * 1.3) are kept exact as thousandths.                                 *)
(***************************************************************************)
EXTENDS Integers, Sequences, FiniteSets, TLC

VARIABLES
    question_strategies,  \* SmartTextSplitter.question_strategies
    input,                \* the arguments the environment supplies
    call,                 \* the last call made: its name and arguments
    ret,                  \* what that call returned or raised
    vectorstore,          \* KnowledgeBase.vectorstore (0 is None)
    stores,               \* the FAISS objects created so far and their texts
    qa_chain,             \* QAChain.qa_chain
    memory,               \* QAChain.memory (the conversation history)
    question_type_prompts, \* QAChain.question_type_prompts
    earlier,              \* a split_text call made before, and the calls since
    session_state,        \* st.session_state of the application
    in_flight             \* the answer_question calls under way, by thread

vars == <<question_strategies, input, call, ret, vectorstore, stores,
          qa_chain, memory, question_type_prompts, earlier, session_state,
          in_flight>>

-----------------------------------------------------------------------------
(* Bounds of the model *)

MaxTokens == 5        \* tokens in a text
ShortWord == 1        \* characters of the short word token
HugeWord == 750       \* characters of the huge word token
MaxSmallSize == 12    \* small chunk sizes tried on adjust_strategy
BigSize == 2500       \* a chunk size above every cap

\* denominator of the fixed point values (thousandths)
Unit == 10 * 10 * 10

-----------------------------------------------------------------------------
(* Texts *)

WordTokens == {"a", "H", "API"}
SpaceTokens == {"PB"}
Tokens == WordTokens \cup SpaceTokens \cup {"FENCE"}

\* len() of a token: "a" a short word, "H" a huge one, "API" a technical term,
\* "PB" the blank line "\n\n" (the only whitespace), "FENCE" "```"
TokLen(t) ==
    CASE t = "a" -> ShortWord
      [] t = "H" -> HugeWord
      [] t = "API" -> 3
      [] t = "PB" -> 2
      [] t = "FENCE" -> 3

Texts == UNION {[1..n -> Tokens] : n \in 0..MaxTokens}

RECURSIVE TextLen(_)
TextLen(t) == IF t = <<>> THEN 0 ELSE TokLen(Head(t)) + TextLen(Tail(t))

RECURSIVE Flatten(_)
Flatten(ss) == IF ss = <<>> THEN <<>> ELSE Head(ss) \o Flatten(Tail(ss))

\* str.strip(): drop the leading and trailing whitespace
RECURSIVE LStrip(_)
LStrip(t) == IF t # <<>> /\ Head(t) \in SpaceTokens THEN LStrip(Tail(t)) ELSE t

RECURSIVE RStrip(_)
RStrip(t) ==
    IF t # <<>> /\ t[Len(t)] \in SpaceTokens
    THEN RStrip(SubSeq(t, 1, Len(t) - 1)) ELSE t

Strip(t) == RStrip(LStrip(t))

\* text.split('\n\n'): always at least one piece
RECURSIVE SplitParagraphs(_, _)
SplitParagraphs(t, cur) ==
    IF t = <<>> THEN <<cur>>
    ELSE IF Head(t) = "PB" THEN <<cur>> \o SplitParagraphs(Tail(t), <<>>)
    ELSE SplitParagraphs(Tail(t), Append(cur, Head(t)))

\* position of the first "```" at or after i, 0 if none
RECURSIVE FindFence(_, _)
FindFence(t, i) ==
    IF i > Len(t) THEN 0
    ELSE IF t[i] = "FENCE" THEN i ELSE FindFence(t, i + 1)

\* re.split(r'(```[\s\S]*?```)', text): text, block, text, ..., text
RECURSIVE ReSplitCode(_)
ReSplitCode(t) ==
    LET i == FindFence(t, 1)
        j == IF i = 0 THEN 0 ELSE FindFence(t, i + 1)
    IN IF j = 0 THEN <<t>>
       ELSE <<SubSeq(t, 1, i - 1), SubSeq(t, i, j)>>
            \o ReSplitCode(SubSeq(t, j + 1, Len(t)))

\* re.findall(r'```[\s\S]*?```', text): the parts at the even positions
FindCodeBlocks(t) ==
    LET parts == ReSplitCode(t)
    IN [k \in 1..(Len(parts) \div 2) |-> parts[2 * k]]

\* '\n\n'.join(pieces)
RECURSIVE JoinParagraphs(_)
JoinParagraphs(ps) ==
    IF ps = <<>> THEN <<>>
    ELSE IF Len(ps) = 1 THEN ps[1]
    ELSE ps[1] \o <<"PB">> \o JoinParagraphs(Tail(ps))

\* nltk sent_tokenize on a text without sentence terminators: nothing for a
\* blank text, otherwise the text as one sentence without its outer blanks
SentTokenize(t) == IF Strip(t) = <<>> THEN <<>> ELSE <<Strip(t)>>

\* re.findall of the \b(?:...)\b term patterns: a term token counts when no
\* word character touches it
TermMatches(t) ==
    Cardinality({i \in 1..Len(t) :
        /\ t[i] = "API"
        /\ (i > 1 => t[i - 1] \notin WordTokens)
        /\ (i < Len(t) => t[i + 1] \notin WordTokens)})

\* len(text.split()): the maximal runs of non-blank characters
TotalWords(t) ==
    Cardinality({i \in 1..Len(t) :
        /\ t[i] \notin SpaceTokens
        /\ (i = 1 \/ t[i - 1] \in SpaceTokens)})


-----------------------------------------------------------------------------
(* SmartTextSplitter: the strategy table and the analyzers *)

Intents == {"factual", "inferential", "summary", "comparison", "definition",
            "procedural", "opinion"}

\* tags outside the seven intents
OtherTags == {"trivia", ""}

Tags == Intents \cup OtherTags

Strategy(size, overlap, by) ==
    [chunk_size |-> size * Unit, chunk_overlap |-> overlap * Unit,
     split_by |-> by]

StrategyTable ==
    [i \in Intents |->
        CASE i = "factual" -> Strategy(300, 50, "sentence")
          [] i = "inferential" -> Strategy(800, 200, "paragraph")
          [] i = "summary" -> Strategy(1000, 100, "paragraph")
          [] i = "comparison" -> Strategy(600, 150, "paragraph")
          [] i = "definition" -> Strategy(400, 50, "sentence")
          [] i = "procedural" -> Strategy(500, 100, "sentence")
          [] i = "opinion" -> Strategy(700, 150, "paragraph")]

\* the smaller of the two, where the larger is meant
CapInsteadOfFloor(a, b) == IF a <= b THEN a ELSE b

Max(a, b) == IF a >= b THEN a ELSE b
Min(a, b) == IF a <= b THEN a ELSE b

RECURSIVE SeqSum(_)
SeqSum(ns) == IF ns = <<>> THEN 0 ELSE Head(ns) + SeqSum(Tail(ns))

SeqMax(ns) == CHOOSE m \in {ns[i] : i \in DOMAIN ns} :
                  \A i \in DOMAIN ns : ns[i] <= m
SeqMin(ns) == CHOOSE m \in {ns[i] : i \in DOMAIN ns} :
                  \A i \in DOMAIN ns : ns[i] >= m

\* mean, max, min and standard deviation of a list of lengths: avg_length is
\* sum / n, and sq_dev is n^2 times the variance (std_length is 0 iff it is 0)
LengthStats(ns) ==
    [sum |-> SeqSum(ns), n |-> Len(ns),
     max_length |-> IF ns = <<>> THEN 0 ELSE SeqMax(ns),
     min_length |-> IF ns = <<>> THEN 0 ELSE SeqMin(ns),
     sq_dev |-> Len(ns) * SeqSum([i \in DOMAIN ns |-> ns[i] * ns[i]])
                - SeqSum(ns) * SeqSum(ns)]

NoStats == [sum |-> 0, n |-> 0, max_length |-> 0, min_length |-> 0, sq_dev |-> 0]

\* an analyzer returns its dict, or raises: max() of an empty list is a
\* ValueError (np.mean of it only warns)
StatsOrRaise(ns) ==
    IF ns = <<>> THEN [status |-> "raised", exc |-> "ValueError", value |-> NoStats]
    ELSE [status |-> "ok", exc |-> "", value |-> LengthStats(ns)]

_analyze_sentence_length(text) ==
    LET sentences == SentTokenize(text)
    IN StatsOrRaise([i \in DOMAIN sentences |-> TextLen(sentences[i])])

_analyze_paragraph_length(text) ==
    LET paragraphs == SplitParagraphs(text, <<>>)
        kept == SelectSeq(paragraphs, LAMBDA p : Strip(p) # <<>>)
    IN StatsOrRaise([i \in DOMAIN kept |-> TextLen(kept[i])])

\* technical_density is matches / total_words, 0 when there are no words
_analyze_technical_terms(text) ==
    [matches |-> TermMatches(text), total_words |-> TotalWords(text),
     total_terms |-> TermMatches(text)]

\* code_ratio is code_chars / text_len, 0 for the empty text
_analyze_code_blocks(text) ==
    LET code_blocks == FindCodeBlocks(text)
    IN [has_code |-> Len(code_blocks) > 0,
        code_blocks_count |-> Len(code_blocks),
        code_chars |-> SeqSum([i \in DOMAIN code_blocks |-> TextLen(code_blocks[i])]),
        text_len |-> TextLen(text)]

NoFeatures ==
    [sentence_length |-> NoStats, paragraph_length |-> NoStats,
     technical_terms |-> [matches |-> 0, total_words |-> 0, total_terms |-> 0],
     code_blocks |-> [has_code |-> FALSE, code_blocks_count |-> 0,
                      code_chars |-> 0, text_len |-> 0]]

\* the analyzers run in the order of the text_analyzers dict; the first one to
\* raise ends the call
analyze_text(text) ==
    LET s == _analyze_sentence_length(text)
        p == _analyze_paragraph_length(text)
    IN IF s.status = "raised"
       THEN [status |-> "raised", exc |-> s.exc, features |-> NoFeatures]
       ELSE IF p.status = "raised"
       THEN [status |-> "raised", exc |-> p.exc, features |-> NoFeatures]
       ELSE [status |-> "ok", exc |-> "",
             features |-> [sentence_length |-> s.value,
                           paragraph_length |-> p.value,
                           technical_terms |-> _analyze_technical_terms(text),
                           code_blocks |-> _analyze_code_blocks(text)]]

-----------------------------------------------------------------------------
(* SmartTextSplitter.adjust_strategy *)

SentenceLengthLimit == 100     \* avg_length > 100
LongSentenceCap == 2000        \* min(chunk_size * 1.5, 2000)
TechnicalSizeCap == 1500       \* min(chunk_size * 1.2, 1500)
TechnicalOverlapCap == 300     \* min(chunk_overlap * 1.5, 300)
CodeSizeFloor == 1000          \* max(chunk_size * 1.3, 1000)

\* x * (m / 10), in thousandths
TimesTenths(x, m) == (x * m) \div 10

\* the threshold taken as reached at 100 already
LongSentencesInclusive(f) ==
    f.sentence_length.sum >= SentenceLengthLimit * f.sentence_length.n

\* avg_length > 100
LongSentences(f) ==
    f.sentence_length.sum > SentenceLengthLimit * f.sentence_length.n

\* technical_density > 0.1
TechnicalText(f) ==
    /\ f.technical_terms.total_words > 0
    /\ 10 * f.technical_terms.matches > f.technical_terms.total_words

adjust_strategy(strategy, f) ==
    LET size1 == IF LongSentences(f)
                 THEN Min(TimesTenths(strategy.chunk_size, 15), LongSentenceCap * Unit)
                 ELSE strategy.chunk_size
        size2 == IF TechnicalText(f)
                 THEN Min(TimesTenths(size1, 12), TechnicalSizeCap * Unit)
                 ELSE size1
        overlap2 == IF TechnicalText(f)
                    THEN Min(TimesTenths(strategy.chunk_overlap, 15),
                             TechnicalOverlapCap * Unit)
                    ELSE strategy.chunk_overlap
        size3 == IF f.code_blocks.has_code
                 THEN Max(TimesTenths(size2, 13), CodeSizeFloor * Unit)
                 ELSE size2
    IN [chunk_size |-> size3, chunk_overlap |-> overlap2,
        split_by |-> IF f.code_blocks.has_code THEN "code" ELSE strategy.split_by]

\* the adjustments written to the dict that was passed in
AdjustedInPlace(strategy, f) == adjust_strategy(strategy, f)

\* The dict passed to adjust_strategy, after the call: the adjustments are made
\* on strategy.copy(), so it is as it was.
ArgumentAfterAdjust(strategy, f) == strategy

-----------------------------------------------------------------------------
(* SmartTextSplitter.split_text and get_split_info *)

\* the lookup with another entry as its default
StrategyGetWrongDefault(table, question_type) ==
    IF question_type \in DOMAIN table THEN table[question_type]
    ELSE table["summary"]

\* dict.get(question_type, table["factual"])
StrategyGet(table, question_type) ==
    IF question_type \in DOMAIN table THEN table[question_type]
    ELSE table["factual"]

\* the key of the entry the lookup returns
StrategyKey(table, question_type) ==
    IF question_type \in DOMAIN table THEN question_type ELSE "factual"

\* The table after split_text or get_split_info looked an entry up and passed
\* it to adjust_strategy: the lookup returns the dict of the table itself, not
\* a copy, and analyze_text comes first, so nothing happens when it raises.
TableAfterAdjust(table, text, question_type) ==
    LET analysis == analyze_text(text)
        key == StrategyKey(table, question_type)
    IN IF analysis.status = "raised" THEN table
       ELSE [table EXCEPT ![key] = ArgumentAfterAdjust(table[key], analysis.features)]

\* the loop of the paragraph branch, and of the text parts of the code branch:
\* st is [chunks, current_chunk, current_length]
AddPiece(st, piece, chunk_size) ==
    IF (st.current_length + TextLen(piece)) * Unit > chunk_size
    THEN [chunks |-> IF st.current_chunk # <<>>
                     THEN Append(st.chunks, JoinParagraphs(st.current_chunk))
                     ELSE st.chunks,
          current_chunk |-> <<piece>>,
          current_length |-> TextLen(piece)]
    ELSE [chunks |-> st.chunks,
          current_chunk |-> Append(st.current_chunk, piece),
          current_length |-> st.current_length + TextLen(piece)]

\* a part that starts with "```" is appended as a chunk of its own, after the
\* pending text
AddCodeBlock(st, part) ==
    [chunks |-> Append(IF st.current_chunk # <<>>
                       THEN Append(st.chunks, JoinParagraphs(st.current_chunk))
                       ELSE st.chunks, part),
     current_chunk |-> <<>>,
     current_length |-> 0]

StartsWithFence(part) == part # <<>> /\ Head(part) = "FENCE"

\* the chunk in progress left behind when the loop ends
FlushLastForgotten(st) == st.chunks

FlushLast(st) ==
    IF st.current_chunk # <<>>
    THEN Append(st.chunks, JoinParagraphs(st.current_chunk))
    ELSE st.chunks

EmptyLoop == [chunks |-> <<>>, current_chunk |-> <<>>, current_length |-> 0]

RECURSIVE ParagraphLoop(_, _, _)
ParagraphLoop(paragraphs, st, chunk_size) ==
    IF paragraphs = <<>> THEN st
    ELSE ParagraphLoop(Tail(paragraphs),
                       AddPiece(st, Head(paragraphs), chunk_size), chunk_size)

RECURSIVE CodeLoop(_, _, _)
CodeLoop(parts, st, chunk_size) ==
    IF parts = <<>> THEN st
    ELSE CodeLoop(Tail(parts),
                  IF StartsWithFence(Head(parts))
                  THEN AddCodeBlock(st, Head(parts))
                  ELSE AddPiece(st, Head(parts), chunk_size),
                  chunk_size)

SplitByParagraph(text, chunk_size) ==
    FlushLast(ParagraphLoop(SplitParagraphs(text, <<>>), EmptyLoop, chunk_size))

SplitByCode(text, chunk_size) ==
    FlushLast(CodeLoop(ReSplitCode(text), EmptyLoop, chunk_size))

NoSplitter == [chunk_size |-> 0, chunk_overlap |-> 0]

SplitRaised(exc) ==
    [status |-> "raised", exc |-> exc, kind |-> "none", chunks |-> <<>>,
     splitter |-> NoSplitter]

\* The value split_text returns, or the exception it raises.  In the sentence
\* branch the chunks are those of langchain's RecursiveCharacterTextSplitter,
\* which is not part of the repository: the result is then the call itself
\* (kind "library", the splitter's chunk_size and chunk_overlap, on the text).
split_text(table, text, question_type) ==
    LET strategy == StrategyGet(table, question_type)
        analysis == analyze_text(text)
        adjusted == adjust_strategy(strategy, analysis.features)
        splitter == [chunk_size |-> adjusted.chunk_size,
                     chunk_overlap |-> adjusted.chunk_overlap]
    IN IF analysis.status = "raised" THEN SplitRaised(analysis.exc)
       ELSE IF adjusted.split_by = "sentence"
       THEN [status |-> "ok", exc |-> "", kind |-> "library",
             chunks |-> <<>>, splitter |-> splitter]
       ELSE IF adjusted.split_by = "paragraph"
       THEN [status |-> "ok", exc |-> "", kind |-> "chunks",
             chunks |-> SplitByParagraph(text, adjusted.chunk_size),
             splitter |-> splitter]
       ELSE IF adjusted.split_by = "code"
       THEN [status |-> "ok", exc |-> "", kind |-> "chunks",
             chunks |-> SplitByCode(text, adjusted.chunk_size),
             splitter |-> splitter]
       ELSE SplitRaised("UnboundLocalError")

NoStrategy == [chunk_size |-> 0, chunk_overlap |-> 0, split_by |-> ""]

\* The dict get_split_info returns, or the exception it raises.  chunks is what
\* split_text returned; chunks_count and avg_chunk_size (total / chunks_count,
\* 0 without chunks) are taken over it.
get_split_info(table, text, question_type) ==
    LET analysis == analyze_text(text)
        strategy == StrategyGet(table, question_type)
        adjusted == adjust_strategy(strategy, analysis.features)
        split == split_text(TableAfterAdjust(table, text, question_type),
                            text, question_type)
    IN IF analysis.status = "raised"
       THEN [status |-> "raised", exc |-> analysis.exc,
             original_strategy |-> NoStrategy, adjusted_strategy |-> NoStrategy,
             text_features |-> NoFeatures, chunks |-> SplitRaised(analysis.exc),
             chunks_count |-> 0, total |-> 0]
       ELSE IF split.status = "raised"
       THEN [status |-> "raised", exc |-> split.exc,
             original_strategy |-> NoStrategy, adjusted_strategy |-> NoStrategy,
             text_features |-> NoFeatures, chunks |-> split,
             chunks_count |-> 0, total |-> 0]
       ELSE [status |-> "ok", exc |-> "",
             original_strategy |-> strategy, adjusted_strategy |-> adjusted,
             text_features |-> analysis.features, chunks |-> split,
             chunks_count |-> Len(split.chunks),
             total |-> SeqSum([i \in DOMAIN split.chunks |-> TextLen(split.chunks[i])])]

-----------------------------------------------------------------------------
(* QAChain: the prompt table *)

\* each intent has its own instruction block; a block is named by its intent
PromptTable == [i \in Intents |-> [instructions |-> i]]

\* the f-string of _get_qa_prompt: the instruction block, then the fixed part
\* with the {context} and {question} placeholders
_get_qa_prompt(prompts, question_type) ==
    [base_prompt |-> IF question_type \in DOMAIN prompts
                     THEN prompts[question_type] ELSE prompts["factual"],
     placeholders |-> <<"context", "question">>]

-----------------------------------------------------------------------------
(* ExerciseGenerator.generate_exercises *)

MaxItems == 4         \* items in the exercise list of a model response

AllFields == {"question", "type", "answer", "explanation", "options"}
required_fields == {"question", "type", "answer", "explanation"}

\* the items tried: one that is not a dict, and dicts of the choice type
\* ("choice" stands for the type string of a multiple choice question) and of
\* the short answer type, complete, without options, without explanation, and
\* one without its type
ItemSamples ==
    {[is_dict |-> FALSE, fields |-> {}, type |-> ""]}
    \cup {[is_dict |-> TRUE, fields |-> AllFields \ {"type"}, type |-> ""]}
    \cup {[is_dict |-> TRUE, fields |-> f, type |-> t] :
            f \in {AllFields, AllFields \ {"options"}, AllFields \ {"explanation"}},
            t \in {"choice", "short_answer"}}

\* the value under "exercises" in the parsed payload
ExercisesSamples ==
    {[kind |-> k, items |-> <<>>] : k \in {"absent", "number", "string"}}
    \cup {[kind |-> "list", items |-> l] :
            l \in UNION {[1..n -> ItemSamples] : n \in 0..MaxItems}}

\* The text of a response: whether it is empty, whether it has a '{' and a
\* '}', what json.loads makes of the span from the first '{' to the last '}'
\* (sub_parse) and of the whole text with its newlines turned into blanks
\* (clean_parse), and the "exercises" value of the payload when one parses.
TextSamples ==
    {t \in [empty : BOOLEAN, has_open : BOOLEAN, has_close : BOOLEAN,
            sub_parse : {"error", "dict"},
            clean_parse : {"error", "nondict", "dict"},
            exercises : ExercisesSamples] :
        \* a span parses only if it has both braces, and then the whole
        \* text is not tried; a dict needs both braces
        /\ t.empty => (~t.has_open /\ ~t.has_close /\ t.sub_parse = "error"
                       /\ t.clean_parse = "error")
        /\ t.sub_parse = "dict" => (t.has_open /\ t.has_close /\ t.clean_parse = "error")
        /\ t.clean_parse = "dict" => (t.has_open /\ t.has_close)
        /\ (t.sub_parse = "error" /\ t.clean_parse # "dict") =>
              t.exercises = [kind |-> "absent", items |-> <<>>]}

\* what Generation.call does: raises, or answers with a status code and, for
\* 200, an output whose text can or cannot be read
ResponseSamples ==
    {[raises |-> TRUE, status_code |-> 0, readable |-> FALSE, text |-> t] :
        t \in {x \in TextSamples : x.empty}}
    \cup {[raises |-> FALSE, status_code |-> 500, readable |-> FALSE, text |-> t] :
        t \in {x \in TextSamples : x.empty}}
    \cup {[raises |-> FALSE, status_code |-> 200, readable |-> FALSE, text |-> t] :
        t \in {x \in TextSamples : x.empty}}
    \cup {[raises |-> FALSE, status_code |-> 200, readable |-> TRUE, text |-> t] :
        t \in TextSamples}

\* None or '', whitespace only, and a document
ContentSamples == {"", "blank", "document"}

ExercisesReturned(kind, items, model_calls) ==
    [status |-> "ok", exc |-> "", kind |-> kind, items |-> items,
     model_calls |-> model_calls]

\* the exception leaves the call instead of being caught
ReraiseException(model_calls) ==
    [status |-> "raised", exc |-> "Exception", kind |-> "list", items |-> <<>>,
     model_calls |-> model_calls]

\* the handlers "except Exception: ... return []"
ReturnEmptyOnException(model_calls) == ExercisesReturned("list", <<>>, model_calls)

\* the checks of the validation loop on one item
IsValidExercise(exercise) ==
    /\ exercise.is_dict
    /\ required_fields \subseteq exercise.fields
    /\ ~(exercise.type = "choice" /\ "options" \notin exercise.fields)

\* after the span parsed: the exercises are validated one by one
ValidatedExercises(exercises, model_calls) ==
    CASE exercises.kind = "absent" -> ExercisesReturned("list", <<>>, model_calls)
      \* a number is falsy (0) or cannot be enumerated (TypeError, caught)
      [] exercises.kind = "number" -> ReturnEmptyOnException(model_calls)
      \* the characters of a string are not dicts
      [] exercises.kind = "string" -> ExercisesReturned("list", <<>>, model_calls)
      [] exercises.kind = "list" ->
            ExercisesReturned("list", SelectSeq(exercises.items, IsValidExercise),
                              model_calls)

\* after the span failed to parse and the cleaned text parsed to a dict: a
\* truthy "exercises" value is returned as it is
ReparsedExercises(exercises, model_calls) ==
    CASE exercises.kind = "absent" -> ExercisesReturned("list", <<>>, model_calls)
      \* len() of a number in the log line is a TypeError, caught
      [] exercises.kind = "number" -> ReturnEmptyOnException(model_calls)
      [] exercises.kind = "string" -> ExercisesReturned("string", <<>>, model_calls)
      [] exercises.kind = "list" ->
            ExercisesReturned("list", exercises.items, model_calls)

\* str.find('{') and str.rfind('}') + 1
start_idx(text) == IF text.has_open THEN 0 ELSE -1
end_idx(text) == IF text.has_close THEN 2 ELSE 0

generate_exercises(content, response) ==
    IF content \in {"", "blank"} THEN ExercisesReturned("list", <<>>, 0)
    ELSE IF response.raises THEN ReturnEmptyOnException(1)
    ELSE IF response.status_code # 200 THEN ExercisesReturned("list", <<>>, 1)
    ELSE IF ~response.readable THEN ReturnEmptyOnException(1)
    ELSE IF response.text.empty THEN ExercisesReturned("list", <<>>, 1)
    ELSE IF start_idx(response.text) = -1 \/ end_idx(response.text) = -1
         THEN ExercisesReturned("list", <<>>, 1)
    ELSE IF response.text.sub_parse = "dict"
         THEN ValidatedExercises(response.text.exercises, 1)
    ELSE IF response.text.clean_parse = "error" THEN ReturnEmptyOnException(1)
    ELSE IF response.text.clean_parse = "nondict" THEN ExercisesReturned("list", <<>>, 1)
    ELSE ReparsedExercises(response.text.exercises, 1)

-----------------------------------------------------------------------------
(* Values shared by the specifications *)

NoCall == [op |-> "none", question_type |-> ""]
NoRet == [status |-> "none"]
NoChain == [built |-> FALSE, retriever |-> 0, prompt |-> [instructions |-> ""]]

NoResponse ==
    [raises |-> TRUE, status_code |-> 0, readable |-> FALSE,
     text |-> [empty |-> TRUE, has_open |-> FALSE, has_close |-> FALSE,
               sub_parse |-> "error", clean_parse |-> "error",
               exercises |-> [kind |-> "absent", items |-> <<>>]]]

NoInput ==
    [text |-> <<>>, strategy |-> NoStrategy, features |-> NoFeatures,
     content |-> "", response |-> NoResponse]

\* the session before any document was processed (app.py lines 18-29)
NoSession == [processed_docs |-> FALSE, qa_chain |-> FALSE, vector_store |-> 0,
              persist_directory |-> 0]

MaxThreads == 2       \* threads that call answer_question on one QAChain

Threads == 1..MaxThreads

\* a thread that is not inside answer_question
Idle == [pc |-> "idle", question_type |-> "", used |-> [instructions |-> ""]]

NoneInFlight == [t \in Threads |-> Idle]

\* no split_text call remembered yet
NoEarlier == [made |-> FALSE, question_type |-> "", ret |-> NoRet, since |-> {}]

\* the QAChain and its KnowledgeBase right after construction, without a
\* persisted index
QAUnused ==
    /\ vectorstore = 0
    /\ stores = <<>>
    /\ qa_chain = NoChain
    /\ memory = <<>>
    /\ question_type_prompts = PromptTable

-----------------------------------------------------------------------------
(* QAChain and KnowledgeBase *)

MaxStores == 2        \* FAISS objects created in a run
MaxTexts == 2         \* texts held by one FAISS object
MaxTurns == 2         \* turns kept in the conversation memory

RetrieverK == 4       \* search_kwargs "k"

\* "the knowledge base is empty, add documents first"
EmptyIndexMessage == "knowledge base is empty"
\* "cannot create the QA chain"
NoChainMessage == "cannot create QA chain"
\* "error while answering: " + str(e)
AnswerErrorMessage == "error while answering"

\* what the collaborators of one answer_question call do: the chain is built
\* or from_llm raises, the prompt is set or its assignment raises, the
\* retriever and the model answer or raise
AnswerOutcomes == {"ok", "build_raises", "prompt_raises", "retrieve_raises",
                   "llm_raises"}

\* what the collaborators of one add_document call do
AddOutcomes == {"ok", "load_raises", "split_raises", "index_raises",
                "save_raises"}

\* the similarity the index computed for a retrieved chunk, in tenths: above
\* the score_threshold of the retriever
Similarity == 8

\* the metadata of the retrieved documents: with or without a "score"
MetadataSamples == {[has_score |-> FALSE, score |-> 0],
                    [has_score |-> TRUE, score |-> Similarity]}

\* _create_qa_chain: None without an index, else a chain whose retriever reads
\* the current FAISS object and whose prompt is _get_qa_prompt()
_create_qa_chain(store, prompts) ==
    IF store = 0 THEN NoChain
    ELSE [built |-> TRUE, retriever |-> store,
          prompt |-> _get_qa_prompt(prompts, "factual").base_prompt]

AnswerError(message, steps) ==
    [status |-> "error", keys |-> {"status", "message"}, message |-> message,
     answer |-> "", sources |-> <<>>, exc |-> "", steps |-> steps]

AnswerRaised(steps) ==
    [status |-> "raised", keys |-> {}, message |-> "", answer |-> "",
     sources |-> <<>>, exc |-> "Exception", steps |-> steps]

\* the sources of a successful result, one per retrieved document
FormatSources(docs) ==
    [i \in DOMAIN docs |->
        [content |-> docs[i].page_content, metadata |-> docs[i].metadata,
         relevance_score |-> IF docs[i].metadata.has_score
                             THEN docs[i].metadata.score ELSE 0]]

AnswerSuccess(docs, steps) ==
    [status |-> "success", keys |-> {"status", "answer", "sources"},
     message |-> "", answer |-> "answer", sources |-> FormatSources(docs),
     exc |-> "", steps |-> steps,
     \* result["source_documents"], what the sources were made from
     source_documents |-> docs]

\* an exception of _create_qa_chain leaves answer_question: the call that
\* builds the chain is made before the try block
ChainBuildFailed(steps) == AnswerRaised(steps)

\* KnowledgeBase.add_document, through QAChain.add_document
AddDocument(outcome, chunks) ==
    /\ call' = [op |-> "add_document", question_type |-> "factual"]
    /\ IF outcome \in {"load_raises", "split_raises"}
       THEN /\ ret' = [status |-> "raised", exc |-> "Exception"]
            /\ UNCHANGED <<vectorstore, stores>>
       ELSE IF vectorstore = 0
       THEN /\ Len(stores) < MaxStores
            /\ IF outcome = "index_raises"
               THEN /\ ret' = [status |-> "raised", exc |-> "Exception"]
                    /\ UNCHANGED <<vectorstore, stores>>
               ELSE /\ stores' = Append(stores, chunks)
                    /\ vectorstore' = Len(stores) + 1
                    /\ ret' = IF outcome = "save_raises"
                              THEN [status |-> "raised", exc |-> "Exception"]
                              ELSE [status |-> "success", exc |-> ""]
       ELSE /\ stores[vectorstore] + chunks <= MaxTexts
            /\ IF outcome = "index_raises"
               THEN /\ ret' = [status |-> "raised", exc |-> "Exception"]
                    /\ UNCHANGED <<vectorstore, stores>>
               ELSE /\ stores' = [stores EXCEPT ![vectorstore] = @ + chunks]
                    /\ UNCHANGED vectorstore
                    /\ ret' = IF outcome = "save_raises"
                              THEN [status |-> "raised", exc |-> "Exception"]
                              ELSE [status |-> "success", exc |-> ""]
    /\ UNCHANGED <<question_strategies, input, qa_chain, memory,
                   question_type_prompts, earlier,
                   session_state, in_flight>>

\* KnowledgeBase.clear
Clear ==
    /\ call' = [op |-> "clear", question_type |-> ""]
    /\ ret' = [status |-> "ok", exc |-> ""]
    /\ vectorstore' = 0
    /\ UNCHANGED <<question_strategies, input, stores, qa_chain, memory,
                   question_type_prompts, earlier,
                   session_state, in_flight>>

\* QAChain.clear_memory
ClearMemory ==
    /\ call' = [op |-> "clear_memory", question_type |-> ""]
    /\ ret' = [status |-> "ok", exc |-> ""]
    /\ memory' = <<>>
    /\ qa_chain' = NoChain
    /\ UNCHANGED <<question_strategies, input, vectorstore, stores,
                   question_type_prompts, earlier,
                   session_state, in_flight>>

\* the check skipped: the call goes on without an index
IndexCheckSkipped(store) == FALSE

\* the first check of answer_question: knowledge_base.vectorstore is None
IndexIsEmpty(store) == store = 0

\* QAChain.answer_question.  steps lists what the call did, in order.
AnswerQuestion(question_type, outcome, docs) ==
    /\ call' = [op |-> "answer_question", question_type |-> question_type]
    /\ IF IndexIsEmpty(vectorstore)
       THEN /\ ret' = AnswerError(EmptyIndexMessage, <<>>)
            /\ UNCHANGED <<qa_chain, memory>>
       ELSE IF ~qa_chain.built /\ outcome = "build_raises"
       THEN /\ ret' = ChainBuildFailed(<<"create_chain">>)
            /\ UNCHANGED <<qa_chain, memory>>
       ELSE LET created == IF qa_chain.built THEN <<>> ELSE <<"create_chain">>
                chain == IF qa_chain.built THEN qa_chain
                         ELSE _create_qa_chain(vectorstore, question_type_prompts)
                prompted == [chain EXCEPT !.prompt =
                    _get_qa_prompt(question_type_prompts, question_type).base_prompt]
            IN IF ~chain.built
               THEN /\ ret' = AnswerError(NoChainMessage, created)
                    /\ qa_chain' = chain
                    /\ UNCHANGED memory
               ELSE IF outcome = "prompt_raises"
               THEN /\ ret' = AnswerError(AnswerErrorMessage, created)
                    /\ qa_chain' = chain
                    /\ UNCHANGED memory
               ELSE IF outcome = "retrieve_raises"
               THEN /\ ret' = AnswerError(AnswerErrorMessage,
                                          created \o <<"set_prompt", "retrieve">>)
                    /\ qa_chain' = prompted
                    /\ UNCHANGED memory
               ELSE IF outcome = "llm_raises"
               THEN /\ ret' = AnswerError(AnswerErrorMessage,
                               created \o <<"set_prompt", "retrieve", "llm">>)
                    /\ qa_chain' = prompted
                    /\ UNCHANGED memory
               ELSE /\ Len(memory) < MaxTurns
                    /\ Len(docs) <= stores[prompted.retriever]
                    /\ ret' = AnswerSuccess(docs,
                               created \o <<"set_prompt", "retrieve", "llm">>)
                    /\ qa_chain' = prompted
                    /\ memory' = Append(memory, [question |-> "question", answer |-> ret'.answer])
    /\ UNCHANGED <<question_strategies, input, vectorstore, stores,
                   question_type_prompts, earlier,
                   session_state, in_flight>>

\* the documents a retrieval can return: at most k of them, all with or all
\* without a score in their metadata; similarity is the score the index
\* computed for the chunk, which the Document itself does not carry
RetrievedSamples ==
    {[i \in 1..n |-> [page_content |-> i, metadata |-> m,
                      similarity |-> Similarity]] :
        n \in 0..Min(RetrieverK, MaxTexts), m \in MetadataSamples}

\* KnowledgeBase.__init__ loads the persisted index when its directory exists
InitQA ==
    /\ in_flight = NoneInFlight
    /\ session_state = NoSession
    /\ earlier = NoEarlier
    /\ question_strategies = StrategyTable
    /\ input = NoInput
    /\ call = NoCall
    /\ ret = NoRet
    /\ \/ vectorstore = 0 /\ stores = <<>>
       \/ vectorstore = 1 /\ stores = <<1>>
    /\ qa_chain = NoChain
    /\ memory = <<>>
    /\ question_type_prompts = PromptTable

NextQA ==
    \/ \E o \in AddOutcomes, n \in 1..MaxTexts : AddDocument(o, n)
    \/ Clear
    \/ ClearMemory
    \/ \E q \in Tags, o \in AnswerOutcomes \ {"ok"} : AnswerQuestion(q, o, <<>>)
    \/ \E q \in Tags, d \in RetrievedSamples : AnswerQuestion(q, "ok", d)

SpecQA == InitQA /\ [][NextQA]_vars

-----------------------------------------------------------------------------
(* Specification of the application: app.py on one session *)

\* what the collaborators of one run of the document processing block do: all
\* goes well, or loading and splitting the files raises, or building the index
\* raises, or the QAChain constructor raises
ProcessOutcomes == {"ok", "load_raises", "index_raises", "chain_raises"}

\* The document processing block.  VectorStoreManager.create_vector_store
\* builds a new FAISS object from the chunks of the uploaded files and keeps
\* it in vector_store_manager.vector_store.  QAChain(qwen_api_key,
\* vector_store_manager.vector_store) then binds that object to the
\* constructor's second parameter, qianfan_secret_key, which only goes to the
\* model endpoint: the QAChain makes a KnowledgeBase of its own, whose
\* vectorstore is what the "vectorstore" directory holds, None without it.
\* The session is written at the end of the try block only.
ProcessDocuments(outcome, chunks) ==
    /\ Len(stores) < MaxStores
    /\ call' = [op |-> "process_documents", question_type |-> ""]
    /\ IF outcome = "load_raises" \/ outcome = "index_raises"
       THEN /\ ret' = [status |-> "error", exc |-> "Exception"]
            /\ UNCHANGED <<stores, vectorstore, qa_chain, memory, session_state>>
       ELSE IF outcome = "chain_raises"
       THEN /\ ret' = [status |-> "error", exc |-> "Exception"]
            /\ stores' = Append(stores, chunks)
            /\ UNCHANGED <<vectorstore, qa_chain, memory, session_state>>
       ELSE /\ ret' = [status |-> "success", exc |-> ""]
            /\ stores' = Append(stores, chunks)
            /\ vectorstore' = session_state.persist_directory
            /\ qa_chain' = NoChain
            /\ memory' = <<>>
            /\ session_state' = [session_state EXCEPT
                                    !.processed_docs = TRUE,
                                    !.qa_chain = TRUE,
                                    !.vector_store = Len(stores) + 1]
    /\ UNCHANGED <<question_strategies, input, question_type_prompts, earlier, in_flight>>

\* the question answering block: shown once processed_docs is set
SubmitQuestion(question_type, outcome, docs) ==
    /\ session_state.processed_docs
    /\ AnswerQuestion(question_type, outcome, docs)

\* the clear-history button calls qa_chain.clear_history(), a method QAChain
\* does not have (its method is clear_memory): AttributeError, outside any try
ClearHistory ==
    /\ session_state.processed_docs
    /\ call' = [op |-> "clear_history", question_type |-> ""]
    /\ ret' = [status |-> "raised", exc |-> "AttributeError"]
    /\ UNCHANGED <<question_strategies, input, vectorstore, stores, qa_chain,
                   memory, question_type_prompts, earlier, session_state, in_flight>>

\* nothing in the application writes the "vectorstore" directory; it is there
\* or not when the application starts
InitApp ==
    /\ in_flight = NoneInFlight
    /\ question_strategies = StrategyTable
    /\ input = NoInput
    /\ call = NoCall
    /\ ret = NoRet
    /\ earlier = NoEarlier
    /\ qa_chain = NoChain
    /\ memory = <<>>
    /\ question_type_prompts = PromptTable
    /\ vectorstore = 0
    /\ \/ stores = <<>> /\ session_state = NoSession
       \/ stores = <<1>>
          /\ session_state = [NoSession EXCEPT !.persist_directory = 1]

NextApp ==
    \/ \E o \in ProcessOutcomes, n \in 1..MaxTexts : ProcessDocuments(o, n)
    \/ \E q \in Intents, o \in AnswerOutcomes \ {"ok"} : SubmitQuestion(q, o, <<>>)
    \/ \E q \in Intents, d \in RetrievedSamples : SubmitQuestion(q, "ok", d)
    \/ ClearHistory

SpecApp == InitApp /\ [][NextApp]_vars

-----------------------------------------------------------------------------
(* Specification of the splitter: a text, then one call on it *)

InitSplit ==
    /\ in_flight = NoneInFlight
    /\ session_state = NoSession
    /\ earlier = NoEarlier
    /\ question_strategies = StrategyTable
    /\ input \in {[NoInput EXCEPT !.text = t] : t \in Texts}
    /\ call = NoCall
    /\ ret = NoRet
    /\ QAUnused

AnalyzeText ==
    /\ call.op = "none"
    /\ call' = [op |-> "analyze_text", question_type |-> ""]
    /\ ret' = analyze_text(input.text)
    /\ UNCHANGED <<question_strategies, input, vectorstore, stores, qa_chain,
                   memory, question_type_prompts, earlier,
                   session_state, in_flight>>

\* the calls made since the remembered one
Since(op) == IF earlier.made THEN [earlier EXCEPT !.since = @ \cup {op}] ELSE earlier

\* a split_text call; remember says whether it becomes the remembered call
SplitTextCall(question_type, remember) ==
    /\ call' = [op |-> "split_text", question_type |-> question_type]
    /\ ret' = split_text(question_strategies, input.text, question_type)
    /\ question_strategies' =
           TableAfterAdjust(question_strategies, input.text, question_type)
    /\ earlier' = IF remember /\ ~earlier.made
                  THEN [made |-> TRUE, question_type |-> question_type,
                        ret |-> ret', since |-> {}]
                  ELSE Since("split_text")
    /\ UNCHANGED <<input, vectorstore, stores, qa_chain, memory,
                   question_type_prompts,
                   session_state, in_flight>>

\* a get_split_info call: it adjusts the entry itself, then calls split_text,
\* which looks the entry up and adjusts it again
GetSplitInfoCall(question_type) ==
    /\ call' = [op |-> "get_split_info", question_type |-> question_type]
    /\ ret' = get_split_info(question_strategies, input.text, question_type)
    /\ question_strategies' =
           TableAfterAdjust(
               TableAfterAdjust(question_strategies, input.text, question_type),
               input.text, question_type)
    /\ earlier' = Since("get_split_info")
    /\ UNCHANGED <<input, vectorstore, stores, qa_chain, memory,
                   question_type_prompts,
                   session_state, in_flight>>

\* adjust_strategy called with an entry of the table and the features of the text
AdjustStrategyCall(intent) ==
    /\ analyze_text(input.text).status = "ok"
    /\ call' = [op |-> "adjust_strategy", question_type |-> intent]
    /\ ret' = [status |-> "ok",
               strategy |-> adjust_strategy(question_strategies[intent],
                                            analyze_text(input.text).features)]
    /\ question_strategies' =
           [question_strategies EXCEPT
               ![intent] = ArgumentAfterAdjust(@, analyze_text(input.text).features)]
    /\ earlier' = Since("adjust_strategy")
    /\ UNCHANGED <<input, vectorstore, stores, qa_chain, memory,
                   question_type_prompts,
                   session_state, in_flight>>

SplitText(question_type) ==
    /\ call.op = "none"
    /\ SplitTextCall(question_type, FALSE)

GetSplitInfo(question_type) ==
    /\ call.op = "none"
    /\ GetSplitInfoCall(question_type)

GetQaPrompt(question_type) ==
    /\ call.op = "none"
    /\ call' = [op |-> "_get_qa_prompt", question_type |-> question_type]
    /\ ret' = [status |-> "ok",
               prompt |-> _get_qa_prompt(question_type_prompts, question_type)]
    /\ UNCHANGED <<question_strategies, input, vectorstore, stores, qa_chain,
                   memory, question_type_prompts, earlier,
                   session_state, in_flight>>

NextSplit ==
    \/ AnalyzeText
    \/ \E q \in Tags : SplitText(q)
    \/ \E q \in Tags : GetSplitInfo(q)
    \/ \E q \in Tags : GetQaPrompt(q)

SpecSplit == InitSplit /\ [][NextSplit]_vars

-----------------------------------------------------------------------------
(* Specification of one splitter used again and again: a text, then any
   sequence of split_text, get_split_info and adjust_strategy calls on it *)

MaxCallTokens == 3    \* tokens in the text of a sequence of calls

\* the intents tried in a sequence: one of sentence granularity, one of
\* paragraph granularity, and a tag that is not in the table
CallTags == {"factual", "summary", "trivia"}

InitCalls ==
    /\ in_flight = NoneInFlight
    /\ session_state = NoSession
    /\ earlier = NoEarlier
    /\ question_strategies = StrategyTable
    /\ input \in {[NoInput EXCEPT !.text = t] :
                     t \in {x \in Texts : Len(x) <= MaxCallTokens}}
    /\ call = NoCall
    /\ ret = NoRet
    /\ QAUnused

NextCalls ==
    \/ \E q \in CallTags, remember \in BOOLEAN : SplitTextCall(q, remember)
    \/ \E q \in CallTags : GetSplitInfoCall(q)
    \/ \E q \in CallTags \cap Intents : AdjustStrategyCall(q)

SpecCalls == InitCalls /\ [][NextCalls]_vars

-----------------------------------------------------------------------------
(* Specification of answer_question called from several threads on one QAChain:
   the call in two steps, up to the assignment of the chain's prompt, and
   from the invocation of the chain on.  The QAChain has no lock. *)

\* lines 138-155 for thread t: the index is there, the chain is built when
\* there is none, and the prompt of the chain, one object shared by all
\* callers, is set to the prompt of this call's intent
SetPrompt(t, question_type) ==
    /\ in_flight[t].pc = "idle"
    /\ ~IndexIsEmpty(vectorstore)
    /\ LET chain == IF qa_chain.built THEN qa_chain
                    ELSE _create_qa_chain(vectorstore, question_type_prompts)
       IN qa_chain' = [chain EXCEPT !.prompt =
              _get_qa_prompt(question_type_prompts, question_type).base_prompt]
    /\ in_flight' = [in_flight EXCEPT
                        ![t] = [pc |-> "prompt_set", question_type |-> question_type,
                                used |-> [instructions |-> ""]]]
    /\ UNCHANGED <<question_strategies, input, call, ret, vectorstore, stores,
                   memory, question_type_prompts, earlier, session_state>>

\* lines 158-172 for thread t: the chain is invoked and reads its prompt as it
\* is now; used is the prompt the model invocation was made with
InvokeChain(t, docs) ==
    /\ in_flight[t].pc = "prompt_set"
    /\ Len(memory) < MaxTurns
    /\ Len(docs) <= stores[qa_chain.retriever]
    /\ in_flight' = [in_flight EXCEPT ![t].pc = "invoked", ![t].used = qa_chain.prompt]
    /\ call' = [op |-> "answer_question", question_type |-> in_flight[t].question_type]
    /\ ret' = AnswerSuccess(docs, <<"set_prompt", "retrieve", "llm">>)
    /\ memory' = Append(memory, [question |-> "question", answer |-> ret'.answer])
    /\ UNCHANGED <<question_strategies, input, vectorstore, stores, qa_chain,
                   question_type_prompts, earlier, session_state>>

\* the call of thread t returns
ReturnAnswer(t) ==
    /\ in_flight[t].pc = "invoked"
    /\ in_flight' = [in_flight EXCEPT ![t] = Idle]
    /\ UNCHANGED <<question_strategies, input, call, ret, vectorstore, stores,
                   qa_chain, memory, question_type_prompts, earlier,
                   session_state>>

\* a QAChain whose knowledge base loaded a persisted index
InitThreads ==
    /\ in_flight = NoneInFlight
    /\ session_state = NoSession
    /\ earlier = NoEarlier
    /\ question_strategies = StrategyTable
    /\ input = NoInput
    /\ call = NoCall
    /\ ret = NoRet
    /\ vectorstore = 1
    /\ stores = <<1>>
    /\ qa_chain = NoChain
    /\ memory = <<>>
    /\ question_type_prompts = PromptTable

NextThreads ==
    \/ \E t \in Threads, q \in CallTags : SetPrompt(t, q)
    \/ \E t \in Threads, d \in RetrievedSamples : InvokeChain(t, d)
    \/ \E t \in Threads : ReturnAnswer(t)

SpecThreads == InitThreads /\ [][NextThreads]_vars

-----------------------------------------------------------------------------
(* Specification of adjust_strategy: a base policy and features, then the call *)

TableSizes == {question_strategies_entry.chunk_size \div Unit :
                  question_strategies_entry \in {StrategyTable[i] : i \in Intents}}
TableOverlaps == {question_strategies_entry.chunk_overlap \div Unit :
                  question_strategies_entry \in {StrategyTable[i] : i \in Intents}}

\* the valid base policies tried: chunk_size > 0 and 0 <= chunk_overlap < chunk_size
BasePolicies ==
    {[chunk_size |-> s * Unit, chunk_overlap |-> o * Unit, split_by |-> b] :
        <<s, o, b>> \in
            {x \in ((1..MaxSmallSize) \cup TableSizes \cup {BigSize})
                   \X ((0..MaxSmallSize) \cup TableOverlaps \cup {BigSize - 1})
                   \X {"sentence", "paragraph", "code"} : x[2] < x[1]}}

\* the features tried: mean sentence length at and above the limit, technical
\* density 0, 0.1 and 0.2, with and without a code block
FeatureSamples ==
    {[NoFeatures EXCEPT
        !.sentence_length = LengthStats(<<n>>),
        !.technical_terms = [matches |-> m, total_words |-> w, total_terms |-> m],
        !.code_blocks = [has_code |-> c, code_blocks_count |-> IF c THEN 1 ELSE 0,
                         code_chars |-> IF c THEN 6 ELSE 0, text_len |-> n]] :
        <<n, m, w, c>> \in {SentenceLengthLimit, SentenceLengthLimit + 1}
                           \X {0, 1, 2} \X {0, 10} \X BOOLEAN}

InitAdjust ==
    /\ in_flight = NoneInFlight
    /\ session_state = NoSession
    /\ earlier = NoEarlier
    /\ question_strategies = StrategyTable
    /\ input \in {[NoInput EXCEPT !.strategy = b, !.features = f] :
                     <<b, f>> \in BasePolicies \X
                        {f \in FeatureSamples :
                            f.technical_terms.matches <= f.technical_terms.total_words}}
    /\ call = NoCall
    /\ ret = NoRet
    /\ QAUnused

AdjustStrategy ==
    /\ call.op = "none"
    /\ call' = [op |-> "adjust_strategy", question_type |-> ""]
    /\ ret' = [status |-> "ok",
               strategy |-> adjust_strategy(input.strategy, input.features)]
    /\ input' = [input EXCEPT
                    !.strategy = ArgumentAfterAdjust(@, input.features)]
    /\ UNCHANGED <<question_strategies, vectorstore, stores, qa_chain,
                   memory, question_type_prompts, earlier,
                   session_state, in_flight>>

NextAdjust == AdjustStrategy

SpecAdjust == InitAdjust /\ [][NextAdjust]_vars

-----------------------------------------------------------------------------
(* Properties of the splitter *)

\* C1: for every valid base policy and every features value, the policy that
\* adjust_strategy returns has 0 <= chunk_overlap < chunk_size.
C1_OverlapInvariant ==
    call.op = "adjust_strategy" =>
        /\ 0 <= ret.strategy.chunk_overlap
        /\ ret.strategy.chunk_overlap < ret.strategy.chunk_size

\* a text without sentences, or without a non-empty paragraph
Blank(text) ==
    \/ SentTokenize(text) = <<>>
    \/ \A i \in DOMAIN SplitParagraphs(text, <<>>) :
          Strip(SplitParagraphs(text, <<>>)[i]) = <<>>

\* C2: analyze_text on the empty string, and on any text without sentences or
\* without non-empty paragraphs, raises nothing and returns features whose
\* statistics, density, counts and ratio are all zero, with has_code false.
C2_AnalyzeBlankIsZero ==
    (call.op = "analyze_text" /\ Blank(input.text)) =>
        /\ ret.status = "ok"
        /\ ret.features = NoFeatures

\* C3: split_text on the empty string raises nothing and returns the empty
\* chunk sequence, for every intent.
C3_SplitEmptyIsEmpty ==
    (call.op = "split_text" /\ input.text = <<>>) =>
        /\ ret.status = "ok"
        /\ ret.chunks = <<>>

\* the granularity rule 3 of adjust_strategy gives a text: code when it has a
\* fenced block, the granularity of the base policy otherwise
AdjustedSplitBy(table, text, question_type) ==
    IF _analyze_code_blocks(text).has_code THEN "code"
    ELSE StrategyGet(table, question_type).split_by

\* C9: for every text and intent whose adjusted granularity is sentence or
\* code, split_text returns chunks whose concatenation, overlaps removed, is
\* the text.  (The code branch adds no overlap; the chunks of the sentence
\* branch are the library's, taken here to be lossless.)
C9_LosslessReconstruction ==
    (/\ call.op = "split_text"
     /\ AdjustedSplitBy(question_strategies, input.text, call.question_type)
            \in {"sentence", "code"}) =>
        /\ ret.status = "ok"
        /\ ret.kind = "chunks" => Flatten(ret.chunks) = input.text

\* Supporting C9: in code mode the chunks of split_text, put together in order,
\* are the text (the code branch adds no overlap and no separator).
CodeModeLossless ==
    (/\ call.op = "split_text"
     /\ ret.status = "ok"
     /\ AdjustedSplitBy(question_strategies, input.text, call.question_type) = "code") =>
        /\ ret.kind = "chunks"
        /\ Flatten(ret.chunks) = input.text

\* C10: a tag outside the seven intents gets the factual base policy in
\* split_text and get_split_info and the factual instruction block in
\* _get_qa_prompt: the results equal those of an explicit factual call, and no
\* lookup error is raised.
C10_UnknownIntentFallback ==
    call.question_type \in OtherTags =>
        /\ call.op = "split_text" =>
              ret = split_text(StrategyTable, input.text, "factual")
        /\ call.op = "get_split_info" =>
              /\ ret = get_split_info(StrategyTable, input.text, "factual")
              /\ ret.status = "ok" =>
                    ret.original_strategy = Strategy(300, 50, "sentence")
        /\ call.op = "_get_qa_prompt" =>
              /\ ret.prompt = _get_qa_prompt(PromptTable, "factual")
              /\ ret.prompt.base_prompt = [instructions |-> "factual"]
        /\ call.op \in {"split_text", "get_split_info"} =>
              (ret.status = "raised" => ret.exc # "KeyError")

\* an unknown tag was passed to get_split_info on a text that has chunks
C10_Witness ==
    /\ call.op = "get_split_info"
    /\ call.question_type \in OtherTags
    /\ ret.status = "ok"
    /\ ret.adjusted_strategy.split_by = "code"
    /\ ret.chunks_count > 1

-----------------------------------------------------------------------------
(* Specification of the exercise generator: a document and what the model
   answers, then the call *)

InitExercises ==
    /\ in_flight = NoneInFlight
    /\ session_state = NoSession
    /\ earlier = NoEarlier
    /\ question_strategies = StrategyTable
    /\ input \in {[NoInput EXCEPT !.content = c, !.response = r] :
                     <<c, r>> \in ContentSamples \X ResponseSamples}
    /\ call = NoCall
    /\ ret = NoRet
    /\ QAUnused

GenerateExercises ==
    /\ call.op = "none"
    /\ call' = [op |-> "generate_exercises", question_type |-> ""]
    /\ ret' = generate_exercises(input.content, input.response)
    /\ UNCHANGED <<question_strategies, input, vectorstore, stores, qa_chain,
                   memory, question_type_prompts, earlier,
                   session_state, in_flight>>

NextExercises == GenerateExercises

SpecExercises == InitExercises /\ [][NextExercises]_vars

-----------------------------------------------------------------------------
(* Properties of the exercise generator *)

\* the model behaviours that are failures: an exception, a status other than
\* 200, an unreadable or empty text, a text without JSON, a text that parses
\* neither way, a payload that is not a dict, a payload without exercises
ModelFailed(response) ==
    \/ response.raises
    \/ response.status_code # 200
    \/ ~response.readable
    \/ response.text.empty
    \/ ~response.text.has_open
    \/ (response.text.sub_parse = "error" /\ response.text.clean_parse # "dict")
    \/ response.text.exercises.kind = "absent"
    \/ (response.text.exercises.kind = "list" /\ response.text.exercises.items = <<>>)

\* C6: generate_exercises never raises; it returns the empty list for blank
\* content without calling the model, and for every failing model behaviour;
\* and it calls the model at most once.
C6_FailsSoft ==
    call.op = "generate_exercises" =>
        /\ ret.status = "ok"
        /\ ret.model_calls <= 1
        /\ input.content \in {"", "blank"} =>
              ret = ExercisesReturned("list", <<>>, 0)
        /\ (input.content = "document" /\ ModelFailed(input.response)) =>
              ret = ExercisesReturned("list", <<>>, 1)

\* the model raised, and the call still returned the empty list
C6_Witness ==
    /\ call.op = "generate_exercises"
    /\ input.content = "document"
    /\ input.response.raises
    /\ ret = ExercisesReturned("list", <<>>, 1)

\* C7: every exercise that generate_exercises returns is a validated item,
\* whichever parse produced the payload.
C7_ReturnedAreValidated ==
    call.op = "generate_exercises" =>
        /\ ret.kind = "list"
        /\ \A i \in DOMAIN ret.items : IsValidExercise(ret.items[i])

\* the payload of the response parsed, at the first attempt or at the second
PayloadParsed(response) ==
    /\ ~response.raises
    /\ response.status_code = 200
    /\ response.readable
    /\ (response.text.sub_parse = "dict" \/ response.text.clean_parse = "dict")

\* C8: when the payload parses, generate_exercises returns exactly the valid
\* items of the exercise list, in their order; invalid items are dropped one
\* by one.
C8_ValidationIsFilter ==
    (/\ call.op = "generate_exercises"
     /\ input.content = "document"
     /\ PayloadParsed(input.response)
     /\ input.response.text.exercises.kind = "list") =>
        /\ ret.kind = "list"
        /\ ret.items = SelectSeq(input.response.text.exercises.items, IsValidExercise)

-----------------------------------------------------------------------------
(* Properties of the question answering chain *)

\* C4: answer_question on a knowledge base without an index returns an error
\* result with the empty-index message, raises nothing, and neither creates
\* the chain nor calls the retriever or the model, whatever calls came before.
C4_EmptyIndexIsError ==
    (call.op = "answer_question" /\ vectorstore = 0) =>
        /\ ret = AnswerError(EmptyIndexMessage, <<>>)
        /\ ret.steps = <<>>

\* an index was built, cleared, and then a question was asked
C4_Witness ==
    /\ call.op = "answer_question"
    /\ vectorstore = 0
    /\ Len(stores) > 0
    /\ ret.status = "error"
    /\ ret.message = EmptyIndexMessage

\* C5: answer_question never raises: it returns a success result with answer
\* and sources, or an error result with a message and neither answer nor
\* sources, whatever fails while the chain is built, the prompt is set, the
\* index is searched or the model generates.
C5_NeverRaises ==
    call.op = "answer_question" =>
        \/ ret.status = "success" /\ ret.keys = {"status", "answer", "sources"}
        \/ /\ ret.status = "error"
           /\ ret.keys = {"status", "message"}
           /\ ret.answer = ""
           /\ ret.sources = <<>>

-----------------------------------------------------------------------------
(* Properties of adjust_strategy *)

\* the features with the code block taken out: what rules 1 and 2 alone see
WithoutCode(f) ==
    [f EXCEPT !.code_blocks = [has_code |-> FALSE, code_blocks_count |-> 0,
                               code_chars |-> 0, text_len |-> @.text_len]]

\* chunk_size after rules 1 and 2, before rule 3
SizeBeforeRule3 == adjust_strategy(input.strategy, WithoutCode(input.features)).chunk_size

\* C11 as stated: the returned granularity is code if and only if a code block
\* is reported, and with a code block chunk_size is max(s * 1.3, 1000).
C11_Rule3Iff ==
    call.op = "adjust_strategy" =>
        /\ (ret.strategy.split_by = "code") <=> input.features.code_blocks.has_code
        /\ input.features.code_blocks.has_code =>
              /\ ret.strategy.chunk_size >= CodeSizeFloor * Unit
              /\ ret.strategy.chunk_size >= (SizeBeforeRule3 * 13) \div 10
              /\ ret.strategy.chunk_size \in {CodeSizeFloor * Unit,
                                              (SizeBeforeRule3 * 13) \div 10}

\* C11 amended: the returned granularity is code when a code block is reported
\* and the base granularity otherwise (so it is code without a code block only
\* for a base policy that is already code); with a code block chunk_size is
\* max(s * 1.3, 1000), s the size after rules 1 and 2: a floor, never a cap.
C11_Rule3 ==
    call.op = "adjust_strategy" =>
        /\ input.features.code_blocks.has_code => ret.strategy.split_by = "code"
        /\ ~input.features.code_blocks.has_code =>
              /\ ret.strategy.split_by = input.strategy.split_by
              /\ ret.strategy.chunk_size = SizeBeforeRule3
        /\ input.features.code_blocks.has_code =>
              /\ ret.strategy.chunk_size >= CodeSizeFloor * Unit
              /\ ret.strategy.chunk_size >= (SizeBeforeRule3 * 13) \div 10
              /\ ret.strategy.chunk_size \in {CodeSizeFloor * Unit,
                                              (SizeBeforeRule3 * 13) \div 10}

\* a code block with long sentences and technical text: the size went past
\* every cap of rules 1 and 2
C11_Witness ==
    /\ call.op = "adjust_strategy"
    /\ input.features.code_blocks.has_code
    /\ LongSentences(input.features)
    /\ TechnicalText(input.features)
    /\ ret.strategy.split_by = "code"
    /\ ret.strategy.chunk_size = 1950 * Unit

\* C12: rules 1 and 2 apply in this order and compound: with mean sentence
\* length > 100 the size s becomes min(1.5 s, 2000); then with technical
\* density > 0.1 it becomes min(1.2 s, 1500) and the overlap o becomes
\* min(1.5 o, 300); with neither, and no code block, the policy is the base.
C12_Rules1And2 ==
    call.op = "adjust_strategy" =>
        LET f == input.features
            long == f.sentence_length.sum > 100 * f.sentence_length.n
            dense == /\ f.technical_terms.total_words > 0
                     /\ 10 * f.technical_terms.matches > f.technical_terms.total_words
            s0 == input.strategy.chunk_size
            o0 == input.strategy.chunk_overlap
            s1 == IF ~long THEN s0
                  ELSE IF (s0 * 15) \div 10 <= 2000 * Unit
                       THEN (s0 * 15) \div 10 ELSE 2000 * Unit
            s2 == IF ~dense THEN s1
                  ELSE IF (s1 * 12) \div 10 <= 1500 * Unit
                       THEN (s1 * 12) \div 10 ELSE 1500 * Unit
            o2 == IF ~dense THEN o0
                  ELSE IF (o0 * 15) \div 10 <= 300 * Unit
                       THEN (o0 * 15) \div 10 ELSE 300 * Unit
        IN /\ ret.strategy.chunk_overlap = o2
           /\ ~f.code_blocks.has_code => ret.strategy.chunk_size = s2
           /\ (~long /\ ~dense /\ ~f.code_blocks.has_code) =>
                 ret.strategy = input.strategy

\* both rules fired on the summary policy: 1000 became 1500, then the cap of
\* rule 2 kept it at 1500, and the overlap 100 became 150
C12_Witness ==
    /\ call.op = "adjust_strategy"
    /\ input.strategy = Strategy(1000, 100, "paragraph")
    /\ LongSentences(input.features)
    /\ TechnicalText(input.features)
    /\ ~input.features.code_blocks.has_code
    /\ ret.strategy = Strategy(1500, 150, "paragraph")

-----------------------------------------------------------------------------
(* Properties of a splitter used again and again *)

\* C13: the strategy table is read-only and adjust_strategy has no side
\* effect: after any sequence of adjust_strategy, split_text and
\* get_split_info calls the policy that was passed in is as it was, and the
\* table maps the seven intents to their (size, overlap, granularity).
C13_TableReadOnly ==
    question_strategies =
        [factual     |-> Strategy(300, 50, "sentence"),
         inferential |-> Strategy(800, 200, "paragraph"),
         summary     |-> Strategy(1000, 100, "paragraph"),
         comparison  |-> Strategy(600, 150, "paragraph"),
         definition  |-> Strategy(400, 50, "sentence"),
         procedural  |-> Strategy(500, 100, "sentence"),
         opinion     |-> Strategy(700, 150, "paragraph")]

\* all three calls were made, the last an adjust_strategy that returned a
\* policy other than the entry it was given
C13_Witness ==
    /\ earlier.made
    /\ earlier.since = {"split_text", "get_split_info", "adjust_strategy"}
    /\ call.op = "adjust_strategy"
    /\ ret.strategy # question_strategies[call.question_type]
    /\ ret.strategy.chunk_size > question_strategies[call.question_type].chunk_size

\* C17: two split_text calls with the same text and the same intent return the
\* same chunk sequence, whatever split_text, get_split_info or adjust_strategy
\* calls were made before or in between.
C17_Idempotence ==
    (/\ earlier.made
     /\ call.op = "split_text"
     /\ call.question_type = earlier.question_type) => ret = earlier.ret

\* the second of two equal calls, with calls of all three kinds in between,
\* on a text that is split into more than one chunk
C17_Witness ==
    /\ earlier.made
    /\ earlier.since = {"split_text", "get_split_info", "adjust_strategy"}
    /\ call.op = "split_text"
    /\ call.question_type = earlier.question_type
    /\ ret.status = "ok"
    /\ ret.kind = "chunks"
    /\ Len(ret.chunks) >= 2
    /\ ret = earlier.ret

-----------------------------------------------------------------------------
(* Properties of the QAChain and its cached chain *)

\* C14: clear_memory has no side effect beyond discarding the conversation
\* history: after it the history is empty, and the index, the prompt table
\* and every other part of the state, the cached QA chain included, are as
\* before.
C14_ClearMemoryFrame ==
    [][call'.op = "clear_memory" =>
          /\ memory' = <<>>
          /\ vectorstore' = vectorstore
          /\ stores' = stores
          /\ question_type_prompts' = question_type_prompts
          /\ question_strategies' = question_strategies
          /\ qa_chain' = qa_chain]_vars

\* what clear_memory does leave alone: the index and the two tables
ClearMemoryKeepsIndex ==
    [][call'.op = "clear_memory" =>
          /\ memory' = <<>>
          /\ qa_chain' = NoChain
          /\ vectorstore' = vectorstore
          /\ stores' = stores
          /\ question_type_prompts' = question_type_prompts
          /\ question_strategies' = question_strategies]_vars

\* C19: a successful answer_question returns the retrieved sources verbatim:
\* one entry per retrieved document, in the same order, at most k = 4, each
\* with the content and metadata of its document and with relevance_score
\* equal to the similarity the index computed for that chunk.
C19_SourcesVerbatim ==
    (call.op = "answer_question" /\ ret.status = "success") =>
        /\ Len(ret.sources) = Len(ret.source_documents)
        /\ Len(ret.sources) <= RetrieverK
        /\ \A i \in DOMAIN ret.sources :
              /\ ret.sources[i].content = ret.source_documents[i].page_content
              /\ ret.sources[i].metadata = ret.source_documents[i].metadata
              /\ ret.sources[i].relevance_score = ret.source_documents[i].similarity

\* content, metadata, order and number of the sources are those of the
\* retrieved documents
SourcesKeepDocuments ==
    (call.op = "answer_question" /\ ret.status = "success") =>
        /\ Len(ret.sources) = Len(ret.source_documents)
        /\ \A i \in DOMAIN ret.sources :
              /\ ret.sources[i].content = ret.source_documents[i].page_content
              /\ ret.sources[i].metadata = ret.source_documents[i].metadata

\* C20: the cached QA chain never goes stale: whenever answer_question
\* invokes the chain, the chain's retriever reads the knowledge base's
\* current vector store.
C20_ChainNeverStale ==
    (/\ call.op = "answer_question"
     /\ \E i \in DOMAIN ret.steps : ret.steps[i] = "retrieve")
        => qa_chain.retriever = vectorstore

-----------------------------------------------------------------------------
(* Properties of the paragraph and code branches of split_text *)

\* the paragraphs of the chunks, chunk after chunk
RECURSIVE ParagraphsOfChunks(_)
ParagraphsOfChunks(chunks) ==
    IF chunks = <<>> THEN <<>>
    ELSE SplitParagraphs(Head(chunks), <<>>) \o ParagraphsOfChunks(Tail(chunks))

\* a split_text call that returned and ran the branch of this granularity
SplitTextIn(split_by) ==
    /\ call.op = "split_text"
    /\ ret.status = "ok"
    /\ AdjustedSplitBy(question_strategies, input.text, call.question_type) = split_by

\* C15: in paragraph mode no paragraph is split: the paragraphs of the chunks,
\* in order, are the blank-line-delimited paragraphs of the text, each whole
\* inside one chunk, whatever its length.
C15_ParagraphsWhole ==
    SplitTextIn("paragraph") =>
        /\ ret.kind = "chunks"
        /\ ParagraphsOfChunks(ret.chunks) = SplitParagraphs(input.text, <<>>)
        /\ \A i \in DOMAIN ret.chunks :
              ret.chunks[i] = JoinParagraphs(SplitParagraphs(ret.chunks[i], <<>>))

\* a paragraph longer than the chunk size, whole in a chunk of its own, and
\* another chunk next to it
C15_Witness ==
    /\ SplitTextIn("paragraph")
    /\ Len(ret.chunks) >= 2
    /\ \E i \in DOMAIN ret.chunks :
          /\ TextLen(ret.chunks[i]) * Unit > ret.splitter.chunk_size
          /\ Len(SplitParagraphs(ret.chunks[i], <<>>)) = 1
    /\ Len(SplitParagraphs(input.text, <<>>)) >= 2

\* a fenced block: from a "```" to the next one
IsFencedBlock(chunk) ==
    /\ Len(chunk) >= 2
    /\ chunk[1] = "FENCE"
    /\ chunk[Len(chunk)] = "FENCE"
    /\ \A i \in 2..(Len(chunk) - 1) : chunk[i] # "FENCE"

\* C16: in code mode every fenced code block of the text is a chunk of its
\* own, in input order, and every chunk that starts with "```" is such a
\* complete fenced block.
C16_CodeBlocksAlone ==
    SplitTextIn("code") =>
        /\ ret.kind = "chunks"
        /\ SelectSeq(ret.chunks, IsFencedBlock) = FindCodeBlocks(input.text)
        /\ \A i \in DOMAIN ret.chunks :
              StartsWithFence(ret.chunks[i]) => IsFencedBlock(ret.chunks[i])

\* the first half of C16: the fenced blocks of the text are chunks of their
\* own, in input order
CodeBlocksAreChunks ==
    SplitTextIn("code") =>
        /\ ret.kind = "chunks"
        /\ SelectSeq(ret.chunks, IsFencedBlock) = FindCodeBlocks(input.text)

\* C18: in paragraph mode the length of a chunk, the blank lines that join
\* its paragraphs included, exceeds the adjusted chunk_size only if the chunk
\* is a single paragraph.
C18_ParagraphSizeBound ==
    SplitTextIn("paragraph") =>
        \A i \in DOMAIN ret.chunks :
            TextLen(ret.chunks[i]) * Unit > ret.splitter.chunk_size =>
                Len(SplitParagraphs(ret.chunks[i], <<>>)) = 1

\* what the loop does bound: the lengths of the paragraphs of a chunk, without
\* the blank lines between them
ParagraphSumBound ==
    SplitTextIn("paragraph") =>
        \A i \in DOMAIN ret.chunks :
            LET paragraphs == SplitParagraphs(ret.chunks[i], <<>>)
            IN SeqSum([k \in DOMAIN paragraphs |-> TextLen(paragraphs[k])]) * Unit
                   > ret.splitter.chunk_size
                 => Len(paragraphs) = 1

\* C23: split_text never emits an empty chunk: for every non-empty text and
\* every intent, in paragraph mode and in code mode, every chunk returned has
\* length greater than zero.
C23_NoEmptyChunk ==
    (/\ call.op = "split_text"
     /\ ret.status = "ok"
     /\ ret.kind = "chunks"
     /\ input.text # <<>>) =>
        \A i \in DOMAIN ret.chunks : TextLen(ret.chunks[i]) > 0

-----------------------------------------------------------------------------
(* Properties of the application flow *)

\* C21: once document processing has succeeded (processed_docs is set and the
\* session has its QAChain), a submitted question is answered against the
\* index built from the uploaded documents: the index of the QAChain is the
\* one processing built, and answer_question does not return the
\* empty-knowledge-base error.
C21_AnswersFromUploadedIndex ==
    (/\ session_state.processed_docs
     /\ session_state.qa_chain
     /\ call.op = "answer_question") =>
        /\ ret.message # EmptyIndexMessage
        /\ vectorstore = session_state.vector_store

-----------------------------------------------------------------------------
(* Properties of the prompt of the chain *)

\* C22: every model invocation made by answer_question uses the prompt of
\* the intent passed to that same call (factual for an unknown tag), whatever
\* the intents of earlier calls, and also when two calls with different
\* intents interleave between setting the prompt and invoking the chain.
C22_PromptIsolation ==
    \A t \in Threads :
        in_flight[t].pc = "invoked" =>
            in_flight[t].used =
                IF in_flight[t].question_type \in Intents
                THEN question_type_prompts[in_flight[t].question_type]
                ELSE question_type_prompts["factual"]

\* without interleaving the prompt is that of the call: after an
\* answer_question that invoked the chain, the chain's prompt is the one of
\* the call's intent, whatever calls came before
SequentialPromptIsolation ==
    (/\ call.op = "answer_question"
     /\ \E i \in DOMAIN ret.steps : ret.steps[i] = "llm") =>
        qa_chain.prompt =
            IF call.question_type \in Intents
            THEN question_type_prompts[call.question_type]
            ELSE question_type_prompts["factual"]

====
